---- MODULE Spec2Model ----
(***************************************************************************)
(* dbt-reviewer: the unified-diff parser (core/diff_parser.py), the        *)
(* rule-based checks (core/deterministic.py), the report's exit status     *)
(* (core/reporter.py) and the driver (reviewer.py).                        *)
(*                                                                         *)
(* Text is modelled by TLA+ strings; a line of the diff is one string.     *)
(* parse_diff is a loop over diff_text.splitlines(): one ParseLine step    *)
(* per line, the line drawn from a finite set of concrete diff lines.      *)
(***************************************************************************)
EXTENDS Integers, Sequences, FiniteSets, TLC

\* ------------------------------------------------------------------ bounds

\* The longest diff read, in lines.
MaxLines == 5

\* The longest added line of SpecErase, in pieces of ErasePieces.
MaxPieces == 5

\* ------------------------------------------------------- Python's str methods

\* s[i] as a one-character string (1-based); "" outside the string.
Char(s, i) == IF i >= 1 /\ i <= Len(s) THEN SubSeq(s, i, i) ELSE ""

\* The characters a..b of s (1-based, both included), cut to the string as a
\* Python slice is.
Slice(s, a, b) ==
    LET lo == IF a < 1 THEN 1 ELSE a
        hi == IF b > Len(s) THEN Len(s) ELSE b
    IN IF lo > hi THEN "" ELSE SubSeq(s, lo, hi)

\* s[n:]
Drop(s, n) == Slice(s, n + 1, Len(s))

\* s[i:].startswith(lit): the literal lit stands at position i of s.
At(s, i, lit) == i >= 1 /\ Slice(s, i, i + Len(lit) - 1) = lit

\* s.startswith(p)
StartsWith(s, p) == At(s, 1, p)

\* s.endswith(p)
EndsWith(s, p) == At(s, Len(s) - Len(p) + 1, p)

\* The characters str.strip() removes and \s matches, among those of the model.
Whitespace == {" ", "\t"}

\* s.strip()
Strip(s) ==
    LET keep == {i \in 1..Len(s) : Char(s, i) \notin Whitespace}
        first == CHOOSE i \in keep : \A j \in keep : i <= j
        last == CHOOSE i \in keep : \A j \in keep : j <= i
    IN IF keep = {} THEN "" ELSE Slice(s, first, last)

\* s.strip() is empty: s holds nothing but whitespace.
IsBlank(s) == \A i \in 1..Len(s) : Char(s, i) \in Whitespace

\* sep.join(lines)
RECURSIVE Join(_, _)
Join(lines, sep) ==
    IF lines = <<>> THEN ""
    ELSE IF Len(lines) = 1 THEN lines[1]
    ELSE lines[1] \o sep \o Join(Tail(lines), sep)

\* needle in s
Contains(s, needle) ==
    \E i \in 1..(Len(s) + 1) : At(s, i, needle)

\* ------------------------------------------------------- regular expressions

Digits == {"0", "1", "2", "3", "4", "5", "6", "7", "8", "9"}

DigitValue(c) ==
    CASE c = "0" -> 0 [] c = "1" -> 1 [] c = "2" -> 2 [] c = "3" -> 3 [] c = "4" -> 4
      [] c = "5" -> 5 [] c = "6" -> 6 [] c = "7" -> 7 [] c = "8" -> 8 [] c = "9" -> 9

\* int(s) of a string of digits
RECURSIVE ParseInt(_)
ParseInt(s) ==
    IF s = "" THEN 0
    ELSE 10 * ParseInt(Slice(s, 1, Len(s) - 1)) + DigitValue(Char(s, Len(s)))

\* The end (exclusive) of the longest run of characters of class cls from i on:
\* what a greedy cls* consumes.
RunEnd(s, i, cls) ==
    CHOOSE j \in i..(Len(s) + 1) :
        /\ \A k \in i..(j - 1) : Char(s, k) \in cls
        /\ (j = Len(s) + 1 \/ Char(s, j) \notin cls)

\* After an optional (?:,\d+) at i: the position reached. The group is taken
\* when it can be; what follows it in _HUNK_RE is a space, which a comma is not.
AfterCount(s, i) ==
    IF Char(s, i) = "," /\ RunEnd(s, i + 1, Digits) > i + 1
    THEN RunEnd(s, i + 1, Digits)
    ELSE i

\* _HUNK_RE.match(line): <<matched, group(1)>> of
\* ^@@ -\d+(?:,\d+)? \+(\d+)(?:,\d+)? @@
HunkMatch(line) ==
    LET a == RunEnd(line, 5, Digits)
        b == AfterCount(line, a)
        c == RunEnd(line, b + 2, Digits)
        d == AfterCount(line, c)
        ok == /\ StartsWith(line, "@@ -")
              /\ a > 5
              /\ At(line, b, " +")
              /\ c > b + 2
              /\ At(line, d, " @@")
    IN IF ok THEN <<TRUE, Slice(line, b + 2, c - 1)>> ELSE <<FALSE, "">>

LowerChars == "abcdefghijklmnopqrstuvwxyz"
UpperChars == "ABCDEFGHIJKLMNOPQRSTUVWXYZ"

Letters == {Char(LowerChars, i) : i \in 1..26} \cup {Char(UpperChars, i) : i \in 1..26}

\* [a-zA-Z_]
IdentStart == Letters \cup {"_"}

\* [a-zA-Z0-9_], the characters of \w
WordChars == IdentStart \cup Digits

\* The lower-case form of each upper-case letter.
LowerOf == [c \in {Char(UpperChars, i) : i \in 1..26} |->
               Char(LowerChars, CHOOSE i \in 1..26 : Char(UpperChars, i) = c)]

\* The lower-case form of one character (re.IGNORECASE compares these).
LowerChar(c) == IF c \in DOMAIN LowerOf THEN LowerOf[c] ELSE c

\* The literal lit (given in lower case) stands at position i, whatever the case.
AtIgnoreCase(s, i, lit) ==
    i >= 1 /\ \A k \in 1..Len(lit) : LowerChar(Char(s, i + k - 1)) = Char(lit, k)

\* \b before position i: exactly one of s[i-1], s[i] is a word character.
WordBoundary(s, i) == (Char(s, i - 1) \in WordChars) # (Char(s, i) \in WordChars)

\* The first position from i on that holds the character stop, Len(s)+1 if
\* none does: the end (exclusive) of what a greedy [^stop]* consumes.
RunEndUntil(s, i, stop) ==
    CHOOSE j \in i..(Len(s) + 1) :
        /\ \A k \in i..(j - 1) : Char(s, k) # stop
        /\ (j = Len(s) + 1 \/ Char(s, j) = stop)

\* _JINJA_RE = \{\{[^}]+\}\} matched at position i: the end (exclusive) of the
\* match, 0 when there is none.
JinjaMatchEnd(s, i) ==
    LET e == RunEndUntil(s, i + 2, "}")
    IN IF At(s, i, "{{") /\ e > i + 2 /\ At(s, e, "}}") THEN e + 2 ELSE 0

\* _JINJA_RE.sub(repl, s) from position i on: the leftmost matches, which do
\* not overlap, are replaced by repl.
RECURSIVE JinjaSubFrom(_, _, _)
JinjaSubFrom(s, i, repl) ==
    IF i > Len(s) THEN ""
    ELSE IF JinjaMatchEnd(s, i) # 0
         THEN repl \o JinjaSubFrom(s, JinjaMatchEnd(s, i), repl)
         ELSE Char(s, i) \o JinjaSubFrom(s, i + 1, repl)

\* An erasure whose replacement opens a template expression.
JinjaSubOpens(repl, s) == JinjaSubFrom(s, 1, "{{" \o repl)

JinjaSub(repl, s) == JinjaSubFrom(s, 1, repl)

\* \b(?:from|join)\s+ matched at position i: the position after the
\* whitespace, 0 when there is no match.
FromJoinEnd(s, i) ==
    LET e == RunEnd(s, i + 4, Whitespace)
    IN IF /\ WordBoundary(s, i)
          /\ (AtIgnoreCase(s, i, "from") \/ AtIgnoreCase(s, i, "join"))
          /\ e > i + 4
       THEN e ELSE 0

\* _SELECT_STAR_RE = \bselect\s+\* (IGNORECASE) matched at position i.
SelectStarAt(s, i) ==
    LET e == RunEnd(s, i + 6, Whitespace)
    IN /\ WordBoundary(s, i)
       /\ AtIgnoreCase(s, i, "select")
       /\ e > i + 6
       /\ Char(s, e) = "*"

\* _SELECT_STAR_RE.search(s)
SelectStarSearch(s) == \E i \in 1..Len(s) : SelectStarAt(s, i)

\* _FROM_JOIN_SCHEMA_RE matched at position i: <<matched, group(1), group(2)>>.
SchemaAt(s, i) ==
    LET e == FromJoinEnd(s, i)
        d == RunEnd(s, e + 1, WordChars)
        f == RunEnd(s, d + 2, WordChars)
        ok == /\ e # 0
              /\ Char(s, e) \in IdentStart
              /\ Char(s, d) = "."
              /\ Char(s, d + 1) \in IdentStart
    IN IF ok THEN <<TRUE, Slice(s, e, d - 1), Slice(s, d + 1, f - 1)>>
       ELSE <<FALSE, "", "">>

\* _FROM_JOIN_SCHEMA_RE.search(s): the leftmost match.
SchemaSearch(s) ==
    LET hits == {i \in 1..Len(s) : SchemaAt(s, i)[1]}
    IN IF hits = {} THEN <<FALSE, "", "">>
       ELSE SchemaAt(s, CHOOSE i \in hits : \A j \in hits : i <= j)

\* The prefixes of a dbt model name, in the order of the alternation.
ModelPrefixes == <<"stg", "fct", "dim", "int", "mart", "base">>

\* _DBT_MODEL_BARE_RE matched at position i: <<matched, group(1), end>>, end
\* the position after the match.
ModelAt(s, i) ==
    LET e == FromJoinEnd(s, i)
        ps == {k \in 1..Len(ModelPrefixes) : AtIgnoreCase(s, e, ModelPrefixes[k] \o "_")}
        p == ModelPrefixes[CHOOSE k \in ps : TRUE]
        n == e + Len(p) + 1
        r == RunEnd(s, n, WordChars)
    IN IF e # 0 /\ ps # {} /\ r > n THEN <<TRUE, Slice(s, e, r - 1), r>>
       ELSE <<FALSE, "", 0>>

\* _DBT_MODEL_BARE_RE.finditer(s) from position i on: the group(1) of each
\* match, leftmost first, none overlapping.
RECURSIVE ModelFindIter(_, _)
ModelFindIter(s, i) ==
    LET hits == {j \in i..Len(s) : ModelAt(s, j)[1]}
        first == CHOOSE j \in hits : \A k \in hits : j <= k
    IN IF hits = {} THEN <<>>
       ELSE <<ModelAt(s, first)[2]>> \o ModelFindIter(s, ModelAt(s, first)[3])

\* ------------------------------------------------------------ diff_parser.py

\* FileDiff(filename=...): the dataclass with its defaults.
FileDiff(filename) ==
    [filename |-> filename,
     added_lines |-> <<>>,
     added_line_numbers |-> <<>>,
     removed_lines |-> <<>>,
     new_content |-> ""]

\* Optional[FileDiff]: None is the empty sequence, a file a sequence of one.
None == <<>>

VARIABLES
    pc,                 \* where the run is
    lines_read,         \* the lines of diff_text.splitlines() read so far
    files,              \* parse_diff: files
    current_file,       \* parse_diff: current_file
    new_content_lines,  \* parse_diff: new_content_lines
    new_line_no,        \* parse_diff: new_line_no
    file_diffs,         \* main: file_diffs, what parse_diff returned
    all_findings,       \* main: all_findings
    exit_status         \* the status the process ended with; -1 while it runs

vars == <<pc, lines_read, files, current_file, new_content_lines, new_line_no,
          file_diffs, all_findings, exit_status>>

mainVars == <<file_diffs, all_findings, exit_status>>

\* current_file with new_content set, as the flush stores it.
Flushed(cf, content_lines) ==
    [cf EXCEPT !.new_content = Join(content_lines, "\n")]

\* A flush that puts the file in front of the list.
FlushInFront(fs, cf, content_lines) ==
    IF cf # None THEN <<Flushed(cf[1], content_lines)>> \o fs ELSE fs

\* files after "if current_file is not None: ... files.append(current_file)".
FlushInto(fs, cf, content_lines) ==
    IF cf # None THEN Append(fs, Flushed(cf[1], content_lines)) ELSE fs

\* The locals of parse_diff as one record.
Locals ==
    [files |-> files,
     current_file |-> current_file,
     new_content_lines |-> new_content_lines,
     new_line_no |-> new_line_no]

\* The locals parse_diff starts with.
StartLocals ==
    [files |-> <<>>, current_file |-> None, new_content_lines |-> <<>>, new_line_no |-> 0]

\* The state parse_diff starts in.
ParseStart ==
    /\ lines_read = <<>>
    /\ files = StartLocals.files
    /\ current_file = StartLocals.current_file
    /\ new_content_lines = StartLocals.new_content_lines
    /\ new_line_no = StartLocals.new_line_no

\* A section marker that flushes and keeps the accumulator.
SectionMarkerKeepsFile(st, line) ==
    [files |-> FlushInto(st.files, st.current_file, st.new_content_lines),
     current_file |-> st.current_file,
     new_content_lines |-> <<>>,
     new_line_no |-> 0]

\* "diff --git ": flush, and reset the section's state.
SectionMarker(st, line) ==
    [files |-> FlushInto(st.files, st.current_file, st.new_content_lines),
     current_file |-> None,
     new_content_lines |-> <<>>,
     new_line_no |-> 0]

\* "+++ b/": start the accumulator of the file named.
NewFilePath(st, line) ==
    LET filename == Drop(line, 6)
    IN IF filename # "/dev/null"
       THEN [st EXCEPT !.current_file = <<FileDiff(filename)>>]
       ELSE st

\* "--- " and "index ": skipped.
SkipHeader(st, line) == st

\* A hunk header that leaves the counter where it is.
HunkHeaderIgnored(st, line) == st

\* A hunk header that resets the counter when it does not match.
HunkHeaderResets(st, line) ==
    LET m == HunkMatch(line)
    IN [st EXCEPT !.new_line_no = IF m[1] THEN ParseInt(m[2]) ELSE 0]

\* "@@": the counter is set from a header that matches _HUNK_RE.
HunkHeader(st, line) ==
    LET m == HunkMatch(line)
    IN IF m[1] THEN [st EXCEPT !.new_line_no = ParseInt(m[2])] ELSE st

\* An added line that gets no number.
AddedLineNotNumbered(st, line) ==
    LET added == Drop(line, 1)
    IN [st EXCEPT !.current_file[1].added_lines = Append(@, added),
                  !.new_content_lines = Append(@, added),
                  !.new_line_no = @ + 1]

\* An added line that leaves the counter where it is.
AddedLineNotCounted(st, line) ==
    LET added == Drop(line, 1)
    IN [st EXCEPT !.current_file[1].added_lines = Append(@, added),
                  !.current_file[1].added_line_numbers = Append(@, st.new_line_no),
                  !.new_content_lines = Append(@, added)]

\* "+": an added line.
AddedLine(st, line) ==
    LET added == Drop(line, 1)
    IN [st EXCEPT !.current_file[1].added_lines = Append(@, added),
                  !.current_file[1].added_line_numbers = Append(@, st.new_line_no),
                  !.new_content_lines = Append(@, added),
                  !.new_line_no = @ + 1]

\* A removed line that is kept in the content of the new file.
RemovedLineKept(st, line) ==
    [st EXCEPT !.current_file[1].removed_lines = Append(@, Drop(line, 1)),
               !.new_content_lines = Append(@, Drop(line, 1))]

\* A removed line that is counted as a line of the new file.
RemovedLineCounted(st, line) ==
    [st EXCEPT !.current_file[1].removed_lines = Append(@, Drop(line, 1)),
               !.new_line_no = @ + 1]

\* "-": a removed line.
RemovedLine(st, line) ==
    [st EXCEPT !.current_file[1].removed_lines = Append(@, Drop(line, 1))]

\* A no-newline marker that is counted as a line of the new file.
NoNewlineMarkerCounted(st, line) ==
    [st EXCEPT !.new_line_no = @ + 1]

\* "\": the no-newline marker.
NoNewlineMarker(st, line) == st

\* A context line that is counted and left out of the content.
ContextLineNotBuffered(st, line) ==
    [st EXCEPT !.new_line_no = @ + 1]

\* A context line that keeps its prefix.
ContextLineWithPrefix(st, line) ==
    [st EXCEPT !.new_content_lines = Append(@, line),
               !.new_line_no = @ + 1]

\* Anything else while a file is current: a context line.
ContextLine(st, line) ==
    LET context == IF StartsWith(line, " ") THEN Drop(line, 1) ELSE line
    IN [st EXCEPT !.new_content_lines = Append(@, context),
                  !.new_line_no = @ + 1]

\* One iteration of "for line in diff_text.splitlines()": the if/elif chain,
\* from the locals before the line to the locals after it.
LoopBody(st, line) ==
    IF StartsWith(line, "diff --git ") THEN SectionMarker(st, line)
    ELSE IF StartsWith(line, "+++ b/") THEN NewFilePath(st, line)
    ELSE IF StartsWith(line, "--- ") \/ StartsWith(line, "index ") THEN SkipHeader(st, line)
    ELSE IF StartsWith(line, "@@") THEN HunkHeader(st, line)
    ELSE IF st.current_file # None THEN
        IF StartsWith(line, "+") THEN AddedLine(st, line)
        ELSE IF StartsWith(line, "-") THEN RemovedLine(st, line)
        ELSE IF StartsWith(line, "\\") THEN NoNewlineMarker(st, line)
        ELSE ContextLine(st, line)
    ELSE st

\* The loop reads one more line of the input.
ParseLine(line) ==
    /\ pc = "parse"
    /\ Len(lines_read) < MaxLines
    /\ lines_read' = Append(lines_read, line)
    /\ LET st == LoopBody(Locals, line)
       IN /\ files' = st.files
          /\ current_file' = st.current_file
          /\ new_content_lines' = st.new_content_lines
          /\ new_line_no' = st.new_line_no
    /\ pc' = pc
    /\ UNCHANGED mainVars

\* The files, whatever their names.
AnyFile(fs) == fs

\* filename.endswith(".sql"): the files parse_diff returns.
RECURSIVE OnlySql(_)
OnlySql(fs) ==
    IF fs = <<>> THEN <<>>
    ELSE IF EndsWith(fs[1].filename, ".sql") THEN <<fs[1]>> \o OnlySql(Tail(fs))
    ELSE OnlySql(Tail(fs))

\* The list files when the input ends here: the last file is flushed.
AllFiles == FlushInto(files, current_file, new_content_lines)

\* What parse_diff returns when the input ends here: of the files, those
\* whose name ends in .sql.
ParseResult == OnlySql(AllFiles)

\* The locals of parse_diff after the loop has read the lines given.
RECURSIVE ParseOf(_)
ParseOf(lines) ==
    IF lines = <<>> THEN StartLocals
    ELSE LoopBody(ParseOf(SubSeq(lines, 1, Len(lines) - 1)), lines[Len(lines)])

\* parse_diff has returned: its locals are gone.
ParseLocalsGone ==
    /\ lines_read' = <<>>
    /\ files' = StartLocals.files
    /\ current_file' = StartLocals.current_file
    /\ new_content_lines' = StartLocals.new_content_lines
    /\ new_line_no' = StartLocals.new_line_no

\* "not diff_text.strip()": every line of the diff is blank.
DiffIsBlank == \A i \in 1..Len(lines_read) : IsBlank(lines_read[i])

\* The end of the input: parse_diff returns to main, which calls it for a
\* text that is not blank.
ParseReturn ==
    /\ pc = "parse"
    /\ ~DiffIsBlank
    /\ file_diffs' = ParseResult
    /\ pc' = "parsed"
    /\ ParseLocalsGone
    /\ UNCHANGED <<all_findings, exit_status>>

\* ---------------------------------------------------------- deterministic.py

\* Finding: the dataclass. line is Optional[str]: <<>> is None, <<text>> a
\* string. (The dash of the messages is U+2014 in the source.)
Finding(rule, severity, file, message, line) ==
    [rule |-> rule, severity |-> severity, file |-> file, message |-> message,
     line |-> line]

SelectStarFinding(file_diff, stripped) ==
    Finding("SELECT_STAR", "error", file_diff.filename,
            "SELECT * detected -- enumerate columns explicitly to avoid schema drift",
            <<stripped>>)

\* check_select_star: the loop from added line i on, with seen and findings.
RECURSIVE SelectStarLoop(_, _, _, _)
SelectStarLoop(file_diff, i, seen, findings) ==
    IF i > Len(file_diff.added_lines) THEN findings
    ELSE LET stripped == Strip(file_diff.added_lines[i])
         IN IF stripped \in seen
            THEN SelectStarLoop(file_diff, i + 1, seen, findings)
            ELSE IF SelectStarSearch(stripped)
            THEN SelectStarLoop(file_diff, i + 1, seen \cup {stripped},
                                Append(findings, SelectStarFinding(file_diff, stripped)))
            ELSE SelectStarLoop(file_diff, i + 1, seen, findings)

check_select_star(file_diff) == SelectStarLoop(file_diff, 1, {}, <<>>)

HardcodedSchemaFinding(file_diff, stripped, ref) ==
    Finding("HARDCODED_SCHEMA", "error", file_diff.filename,
            "Hardcoded schema reference \"" \o ref \o "\" -- "
              \o "use {{ ref() }} for dbt models or {{ source() }} for raw tables",
            <<stripped>>)

\* check_hardcoded_schema: the loop from added line i on.
RECURSIVE HardcodedSchemaLoop(_, _, _, _)
HardcodedSchemaLoop(file_diff, i, seen, findings) ==
    IF i > Len(file_diff.added_lines) THEN findings
    ELSE LET line == file_diff.added_lines[i]
             stripped == Strip(line)
             clean == JinjaSub("__JINJA__", line)
             match == SchemaSearch(clean)
         IN IF stripped \in seen
            THEN HardcodedSchemaLoop(file_diff, i + 1, seen, findings)
            ELSE IF StartsWith(stripped, "--")
            THEN HardcodedSchemaLoop(file_diff, i + 1, seen, findings)
            ELSE IF match[1]
            THEN HardcodedSchemaLoop(file_diff, i + 1, seen \cup {stripped},
                     Append(findings,
                            HardcodedSchemaFinding(file_diff, stripped,
                                                   match[2] \o "." \o match[3])))
            ELSE HardcodedSchemaLoop(file_diff, i + 1, seen, findings)

check_hardcoded_schema(file_diff) == HardcodedSchemaLoop(file_diff, 1, {}, <<>>)

MissingRefFinding(file_diff, stripped, name) ==
    Finding("MISSING_REF", "warning", file_diff.filename,
            "Direct reference to dbt model \"" \o name \o "\" -- "
              \o "use {{ ref('" \o name \o "') }} to track lineage",
            <<stripped>>)

\* The inner loop of check_missing_ref: one finding per match of the line.
RECURSIVE MissingRefMatches(_, _, _)
MissingRefMatches(file_diff, stripped, names) ==
    IF names = <<>> THEN <<>>
    ELSE <<MissingRefFinding(file_diff, stripped, names[1])>>
           \o MissingRefMatches(file_diff, stripped, Tail(names))

\* check_missing_ref: the loop from added line i on.
RECURSIVE MissingRefLoop(_, _, _, _)
MissingRefLoop(file_diff, i, seen, findings) ==
    IF i > Len(file_diff.added_lines) THEN findings
    ELSE LET line == file_diff.added_lines[i]
             stripped == Strip(line)
             clean == JinjaSub("", line)
             names == ModelFindIter(clean, 1)
         IN IF stripped \in seen
            THEN MissingRefLoop(file_diff, i + 1, seen, findings)
            ELSE IF Contains(line, "ref(")
            THEN MissingRefLoop(file_diff, i + 1, seen, findings)
            ELSE MissingRefLoop(file_diff, i + 1,
                     IF names # <<>> THEN seen \cup {stripped} ELSE seen,
                     findings \o MissingRefMatches(file_diff, stripped, names))

check_missing_ref(file_diff) == MissingRefLoop(file_diff, 1, {}, <<>>)

\* The three checks of one file, the last of them first.
ChecksMissingRefFirst(fd) ==
    check_missing_ref(fd) \o check_select_star(fd) \o check_hardcoded_schema(fd)

\* The three checks of one file, in the order run_all calls them.
ChecksOf(fd) ==
    check_select_star(fd) \o check_hardcoded_schema(fd) \o check_missing_ref(fd)

\* run_all: the loop over file_diffs from file k on, extending findings.
RECURSIVE RunAllLoop(_, _, _)
RunAllLoop(fds, k, findings) ==
    IF k > Len(fds) THEN findings
    ELSE RunAllLoop(fds, k + 1, findings \o ChecksOf(fds[k]))

run_all(fds) == RunAllLoop(fds, 1, <<>>)

\* ---------------------------------------------------- semantic.py, reporter.py

\* The findings run_semantic_checks can add for one reply of the service: none
\* (no key, --no-semantic aside, or an empty or unparsable reply), or one
\* Finding of a file whose new_content is not blank, with the rule and the
\* severity of the reply, or their defaults, and no line.
SemanticReplies(fds) ==
    {<<>>} \cup
    {<<Finding("UNKNOWN", severity, fds[k].filename, "review", <<>>)>> :
        severity \in {"error", "warning", "info"},
        k \in {j \in 1..Len(fds) : ~IsBlank(fds[j].new_content)}}

_SEVERITY_ORDER == <<"error", "warning", "info">>

\* "if finding.line": the line is a string that is not empty.
LineIsSet(finding) == finding.line # <<>> /\ finding.line[1] # ""

\* format_report reads finding.line_number of every finding it prints whose
\* line is set; Finding has no such attribute, and the read raises.
FormatReportRaises(findings) ==
    \E i \in 1..Len(findings) :
        /\ \E g \in 1..Len(_SEVERITY_ORDER) : findings[i].severity = _SEVERITY_ORDER[g]
        /\ LineIsSet(findings[i])
        /\ "line_number" \notin DOMAIN findings[i]

\* exit_code(findings)
exit_code(findings) ==
    IF \E i \in 1..Len(findings) : findings[i].severity = "error" THEN 1 ELSE 0

\* ---------------------------------------------------------------- reviewer.py

\* main, step 1: "Empty diff -- nothing to review.", status 0; parse_diff is
\* not called.
EmptyDiff ==
    /\ pc = "parse"
    /\ DiffIsBlank
    /\ pc' = "exit"
    /\ exit_status' = 0
    /\ ParseLocalsGone
    /\ UNCHANGED <<file_diffs, all_findings>>

\* main, step 2: "No SQL files found in diff.", status 0.
NoSqlFiles ==
    /\ pc = "parsed"
    /\ file_diffs = <<>>
    /\ pc' = "exit"
    /\ exit_status' = 0
    /\ UNCHANGED <<lines_read, files, current_file, new_content_lines, new_line_no,
                   file_diffs, all_findings>>

\* main, step 3: the deterministic checks.
RunDeterministic ==
    /\ pc = "parsed"
    /\ file_diffs # <<>>
    /\ all_findings' = run_all(file_diffs)
    /\ pc' = "checked"
    /\ UNCHANGED <<lines_read, files, current_file, new_content_lines, new_line_no,
                   file_diffs, exit_status>>

\* main, step 4: the semantic checks, skipped with --no-semantic.
RunSemantic ==
    /\ pc = "checked"
    /\ \E semantic \in SemanticReplies(file_diffs) :
           all_findings' = all_findings \o semantic
    /\ pc' = "report"
    /\ UNCHANGED <<lines_read, files, current_file, new_content_lines, new_line_no,
                   file_diffs, exit_status>>

\* main, step 5: format_report returns and the report is printed.
FormatReport ==
    /\ pc = "report"
    /\ ~FormatReportRaises(all_findings)
    /\ pc' = "reported"
    /\ UNCHANGED <<lines_read, files, current_file, new_content_lines, new_line_no,
                   file_diffs, all_findings, exit_status>>

\* main, step 5: format_report raises AttributeError; nothing catches it and
\* the interpreter ends with status 1.
ReportRaises ==
    /\ pc = "report"
    /\ FormatReportRaises(all_findings)
    /\ pc' = "exit"
    /\ exit_status' = 1
    /\ UNCHANGED <<lines_read, files, current_file, new_content_lines, new_line_no,
                   file_diffs, all_findings>>

\* main, step 5: sys.exit(exit_code(all_findings)).
Exit ==
    /\ pc = "reported"
    /\ pc' = "exit"
    /\ exit_status' = exit_code(all_findings)
    /\ UNCHANGED <<lines_read, files, current_file, new_content_lines, new_line_no,
                   file_diffs, all_findings>>

\* ------------------------------------------------- the diff, as the claims read it

\* The kinds of line of a unified diff.
IsSectionMarker(l) == StartsWith(l, "diff --git ")

IsHeaderLine(l) ==
    \/ IsSectionMarker(l)
    \/ StartsWith(l, "+++ b/")
    \/ StartsWith(l, "--- ")
    \/ StartsWith(l, "index ")
    \/ StartsWith(l, "@@")

\* A new-file-path line that names a file.
IsNewFilePath(l) == StartsWith(l, "+++ b/") /\ Drop(l, 6) # "/dev/null"

IsAdded(l) == ~IsHeaderLine(l) /\ StartsWith(l, "+")

IsRemoved(l) == ~IsHeaderLine(l) /\ StartsWith(l, "-")

IsContext(l) ==
    ~IsHeaderLine(l) /\ ~StartsWith(l, "+") /\ ~StartsWith(l, "-") /\ ~StartsWith(l, "\\")

\* A line of the new file: added or context.
IsContent(l) == IsAdded(l) \/ IsContext(l)

\* A content line without its one-character prefix.
ContentText(l) == IF StartsWith(l, "+") \/ StartsWith(l, " ") THEN Drop(l, 1) ELSE l

\* The sections of a diff: the lines up to the first section marker, and
\* those after each marker.
RECURSIVE SplitSections(_)
SplitSections(lines) ==
    IF lines = <<>> THEN << <<>> >>
    ELSE LET before == SplitSections(SubSeq(lines, 1, Len(lines) - 1))
             l == lines[Len(lines)]
         IN IF IsSectionMarker(l) THEN Append(before, <<>>)
            ELSE [before EXCEPT ![Len(before)] = Append(@, l)]

HasNewFilePath(section) == \E n \in 1..Len(section) : IsNewFilePath(section[n])

\* The sections that name a file, in the order of the diff.
FileSections == SelectSeq(SplitSections(lines_read), HasNewFilePath)

\* The context and added lines of a section that follow its first
\* new-file-path line, each without its prefix, in the order of the diff.
BufferedLines(section) ==
    LET p == CHOOSE n \in 1..Len(section) :
                 IsNewFilePath(section[n]) /\ \A m \in 1..(n - 1) : ~IsNewFilePath(section[m])
        kept == SelectSeq(SubSeq(section, p + 1, Len(section)), IsContent)
    IN [n \in 1..Len(kept) |-> ContentText(kept[n])]

StrictlyIncreasing(numbers) ==
    \A i \in 1..(Len(numbers) - 1) : numbers[i] < numbers[i + 1]

\* The largest entry of a sequence of numbers that is not empty.
Largest(numbers) ==
    CHOOSE x \in {numbers[i] : i \in 1..Len(numbers)} :
        \A i \in 1..Len(numbers) : numbers[i] <= x

\* The number of lines of a text: one more than its newlines.
LineCount(text) == 1 + Cardinality({i \in 1..Len(text) : Char(text, i) = "\n"})

\* Line n of the diff is a hunk header that sets the counter to a value below
\* the one it has reached.
HeaderLowersCounter(n) ==
    LET before == ParseOf(SubSeq(lines_read, 1, n - 1))
        m == HunkMatch(lines_read[n])
    IN /\ StartsWith(lines_read[n], "@@")
       /\ m[1]
       /\ ParseInt(m[2]) < before.new_line_no

NoHeaderLowersCounter == \A n \in 1..Len(lines_read) : ~HeaderLowersCounter(n)

\* ----------------------------------------------------------------- the claims

\* C1 as stated: in every FileChange parse_diff returns, added_line_numbers
\* is strictly increasing, whatever the hunk headers.
C1_StrictlyIncreasing ==
    \A k \in 1..Len(ParseResult) : StrictlyIncreasing(ParseResult[k].added_line_numbers)

\* C1, amended: in every FileChange parse_diff returns, added_line_numbers is
\* strictly increasing, provided no hunk header of the diff sets the counter
\* to a value below the one it has reached.
C1_IncreasingUnlessLowered ==
    NoHeaderLowersCounter => C1_StrictlyIncreasing

\* Two hunks in ascending order, an added line in each.
C1_Witness ==
    /\ pc = "parse"
    /\ NoHeaderLowersCounter
    /\ \E k \in 1..Len(ParseResult) : ParseResult[k].added_line_numbers = <<1, 3>>

C7_NewContent ==
    /\ Len(AllFiles) = Len(FileSections)
    /\ \A k \in 1..Len(AllFiles) :
           AllFiles[k].new_content = Join(BufferedLines(FileSections[k]), "\n")

\* Two files; the section of the first holds a removed and an added line.
C7_Witness ==
    /\ pc = "parse"
    /\ Len(ParseResult) = 2
    /\ ParseResult[1].new_content = "from stg_a"
    /\ ParseResult[1].removed_lines # <<>>

\* The line that opened what is current: the last section marker or
\* new-file-path line read, 0 when there is none.
ScopeStart ==
    LET opens == {n \in 1..Len(lines_read) :
                     IsSectionMarker(lines_read[n]) \/ IsNewFilePath(lines_read[n])}
    IN IF opens = {} THEN 0 ELSE CHOOSE n \in opens : \A m \in opens : m <= n

\* The lines read for the file that is current.
Scope ==
    IF ScopeStart > 0 /\ IsNewFilePath(lines_read[ScopeStart])
    THEN (ScopeStart + 1)..Len(lines_read)
    ELSE {}

\* Line h is the hunk header that governs line j: the last one before j that
\* matches.
GoverningHeader(h, j) ==
    /\ h < j
    /\ StartsWith(lines_read[h], "@@")
    /\ HunkMatch(lines_read[h])[1]
    /\ \A n \in (h + 1)..(j - 1) :
           ~(StartsWith(lines_read[n], "@@") /\ HunkMatch(lines_read[n])[1])

\* The lines of the new file between lines h and j of the diff.
ContentBetween(h, j) == Cardinality({n \in (h + 1)..(j - 1) : IsContent(lines_read[n])})

\* The diff without its line i.
WithoutLine(i) == SubSeq(lines_read, 1, i - 1) \o SubSeq(lines_read, i + 1, Len(lines_read))

\* The places of a text in a sequence of texts.
Places(texts, t) == {a \in 1..Len(texts) : texts[a] = t}

\* C9: a text removed at line i and added, once, at line j of the same file
\* is in added_lines exactly once, numbered by its place in the new file (the
\* start of its hunk plus the context and added lines before it), and the
\* diff without the removal gives the same added lines and numbers.
C9_RemovedAndReAdded ==
    \A i \in Scope : \A j \in Scope :
        (/\ i # j
         /\ IsRemoved(lines_read[i])
         /\ IsAdded(lines_read[j])
         /\ Drop(lines_read[i], 1) = Drop(lines_read[j], 1)
         /\ \A n \in Scope :
                (IsAdded(lines_read[n]) /\ lines_read[n] = lines_read[j]) => n = j)
        => LET cur == current_file[1]
               t == Drop(lines_read[j], 1)
               rest == ParseOf(WithoutLine(i)).current_file[1]
           IN /\ Cardinality(Places(cur.added_lines, t)) = 1
              /\ \A h \in Scope :
                     GoverningHeader(h, j) =>
                         \A a \in Places(cur.added_lines, t) :
                             cur.added_line_numbers[a]
                                 = ParseInt(HunkMatch(lines_read[h])[2]) + ContentBetween(h, j)
              /\ rest.added_lines = cur.added_lines
              /\ rest.added_line_numbers = cur.added_line_numbers

\* A hunk at line 3 that removes a text, keeps a line and adds the text again.
C9_Witness ==
    /\ pc = "parse"
    /\ current_file # None
    /\ current_file[1].removed_lines = <<"from stg_a">>
    /\ current_file[1].added_lines = <<"from stg_a">>
    /\ current_file[1].added_line_numbers = <<4>>
    /\ new_content_lines = <<"select 1", "from stg_a">>

\* The findings of a list all have different line texts.
DistinctLines(findings) ==
    \A i \in 1..Len(findings) : \A j \in 1..Len(findings) :
        findings[i].line = findings[j].line => i = j

\* C3 as stated: each check returns at most one Finding per trimmed text of
\* an added line of the file.
C3_OneFindingPerLine ==
    pc = "checked" =>
        \A k \in 1..Len(file_diffs) :
            /\ DistinctLines(check_select_star(file_diffs[k]))
            /\ DistinctLines(check_hardcoded_schema(file_diffs[k]))
            /\ DistinctLines(check_missing_ref(file_diffs[k]))

\* The first added line of a file whose trimmed text is the text given.
FirstMatch(fd, text) ==
    CHOOSE a \in 1..Len(fd.added_lines) :
        /\ Strip(fd.added_lines[a]) = text
        /\ \A b \in 1..(a - 1) : Strip(fd.added_lines[b]) # text

\* C4 as stated: every Finding of a check carries the line number that
\* added_line_numbers gives the first added line with its text.
C4_FindingLineNumber ==
    pc = "checked" =>
        \A i \in 1..Len(all_findings) :
            LET f == all_findings[i]
            IN LineIsSet(f) =>
                   /\ "line_number" \in DOMAIN f
                   /\ \E k \in 1..Len(file_diffs) :
                          /\ file_diffs[k].filename = f.file
                          /\ f.line_number
                                 = file_diffs[k].added_line_numbers[
                                       FirstMatch(file_diffs[k], f.line[1])]

\* C5 as stated: a review of at least one .sql file ends with a status other
\* than 0 exactly when a finding has severity error.
C5_ExitStatus ==
    (pc = "exit" /\ file_diffs # <<>>) =>
        ((exit_status # 0)
             <=> \E i \in 1..Len(all_findings) : all_findings[i].severity = "error")

\* A section names a file whose name ends in .sql.
HasSqlPath(section) ==
    \E n \in 1..Len(section) : IsNewFilePath(section[n]) /\ EndsWith(section[n], ".sql")

\* C6: parse_diff returns only files whose path ends in .sql, at most one for
\* each section that names such a path; a diff that names none gives no
\* FileChange, and run_all of that list no Finding.
C6_OnlySqlFiles ==
    pc = "parse" =>
        /\ \A k \in 1..Len(ParseResult) : EndsWith(ParseResult[k].filename, ".sql")
        /\ Len(ParseResult) <= Len(SelectSeq(SplitSections(lines_read), HasSqlPath))
        /\ (\A n \in 1..Len(lines_read) : ~HasSqlPath(<<lines_read[n]>>)) =>
               (ParseResult = <<>> /\ run_all(ParseResult) = <<>>)

\* A diff of a .md file and of a deleted file, with an added line a rule
\* matches.
C6_Witness ==
    /\ pc = "parse"
    /\ \E a \in 1..Len(lines_read) : lines_read[a] = "+++ b/r.md"
    /\ \E a \in 1..Len(lines_read) : lines_read[a] = "+++ /dev/null"
    /\ \E k \in 1..Len(AllFiles) : AllFiles[k].added_lines # <<>>
    /\ ParseResult = <<>>

\* The findings of each file alone, one file after the other.
RECURSIVE FileByFile(_)
FileByFile(fds) ==
    IF fds = <<>> THEN <<>> ELSE run_all(<<fds[1]>>) \o FileByFile(Tail(fds))

\* The place of a rule in the order of the checks.
CheckOrder(rule) ==
    CASE rule = "SELECT_STAR" -> 1
      [] rule = "HARDCODED_SCHEMA" -> 2
      [] rule = "MISSING_REF" -> 3

\* The findings of one file are in the order of the checks and, within a
\* check, in the order of the first added line with their text.
InCheckOrder(fd, findings) ==
    \A i \in 1..Len(findings) : \A j \in (i + 1)..Len(findings) :
        \/ CheckOrder(findings[i].rule) < CheckOrder(findings[j].rule)
        \/ /\ findings[i].rule = findings[j].rule
           /\ FirstMatch(fd, findings[i].line[1]) <= FirstMatch(fd, findings[j].line[1])

\* C10: the findings of run_all are those of each file alone, in the order of
\* the files; those of a file are in the order of the checks, then of the
\* first match among the added lines.
C10_RunAllOrder ==
    pc = "checked" =>
        /\ all_findings = FileByFile(file_diffs)
        /\ \A k \in 1..Len(file_diffs) :
               /\ \A i \in 1..Len(run_all(<<file_diffs[k]>>)) :
                      run_all(<<file_diffs[k]>>)[i].file = file_diffs[k].filename
               /\ InCheckOrder(file_diffs[k], run_all(<<file_diffs[k]>>))

\* Two files, the first with findings of two rules, the second with one the
\* first has too.
C10_Witness ==
    /\ pc = "checked"
    /\ Len(file_diffs) = 2
    /\ Len(run_all(<<file_diffs[1]>>)) >= 2
    /\ \E i \in 1..Len(run_all(<<file_diffs[1]>>)) :
           run_all(<<file_diffs[1]>>)[i].rule = "MISSING_REF"
    /\ \E i \in 1..Len(run_all(<<file_diffs[2]>>)) :
           run_all(<<file_diffs[2]>>)[i].rule = "SELECT_STAR"

\* The lines of a hunk after its header, when the diff read is the new-file
\* path of one file and one hunk header followed by lines.
HunkBody == SubSeq(lines_read, 3, Len(lines_read))

IsNoNewlineMarker(l) == StartsWith(l, "\\")

\* The diff read is a diff of one file that changes nothing: the path, one
\* hunk header, and context lines only, the no-newline marker allowed after
\* the last of them when it has text (a last line without text and without
\* newline is no line).
NoopDiff ==
    /\ Len(lines_read) >= 3
    /\ IsNewFilePath(lines_read[1])
    /\ EndsWith(lines_read[1], ".sql")
    /\ StartsWith(lines_read[2], "@@")
    /\ IsContext(HunkBody[1])
    /\ \A n \in 2..Len(HunkBody) :
           \/ IsContext(HunkBody[n])
           \/ /\ IsNoNewlineMarker(HunkBody[n])
              /\ n = Len(HunkBody)
              /\ IsContext(HunkBody[n - 1])
              /\ ContentText(HunkBody[n - 1]) # ""

\* The content of the file a hunk of context lines shows in full: every
\* context line is a line of the file, ended by a newline unless the
\* no-newline marker follows it.
RECURSIVE OriginalContent(_)
OriginalContent(body) ==
    IF body = <<>> THEN ""
    ELSE IF Len(body) >= 2 /\ IsNoNewlineMarker(body[2])
         THEN ContentText(body[1]) \o OriginalContent(SubSeq(body, 3, Len(body)))
         ELSE ContentText(body[1]) \o "\n" \o OriginalContent(Tail(body))

WithoutFinalNewline(text) ==
    IF EndsWith(text, "\n") THEN Slice(text, 1, Len(text) - 1) ELSE text

\* C8 as stated: new_content of the file of a diff with context lines only
\* is the original content of the file.
C8_NoopIsOriginal ==
    (pc = "parse" /\ NoopDiff) =>
        /\ Len(ParseResult) = 1
        /\ ParseResult[1].new_content = OriginalContent(HunkBody)

\* C8, amended: new_content of the file of a diff with context lines only,
\* its hunk showing the whole file, is the original content of the file
\* without its final newline.
C8_NoopIsOriginalLessNewline ==
    (pc = "parse" /\ NoopDiff) =>
        /\ Len(ParseResult) = 1
        /\ ParseResult[1].added_lines = <<>>
        /\ ParseResult[1].removed_lines = <<>>
        /\ ParseResult[1].new_content = WithoutFinalNewline(OriginalContent(HunkBody))

\* A file of two lines, the second empty, that ends with a newline.
C8_Witness ==
    /\ pc = "parse"
    /\ NoopDiff
    /\ OriginalContent(HunkBody) = "select 1\n\n"
    /\ ParseResult[1].new_content = "select 1\n"

\* Line n of the diff begins with @@ and matches the shape of a hunk header.
IsHunkHeader(l) == StartsWith(l, "@@") /\ HunkMatch(l)[1]

\* Line n of the diff begins with @@ and does not match the shape.
IsMalformedHeader(l) == StartsWith(l, "@@") /\ ~HunkMatch(l)[1]

\* The added line at j follows, in its own section, a hunk header whose
\* new-side start is at least 1, and no later header precedes it.
HeadedFromOne(j) ==
    \E h \in 1..(j - 1) :
        /\ IsHunkHeader(lines_read[h])
        /\ ParseInt(HunkMatch(lines_read[h])[2]) >= 1
        /\ \A n \in (h + 1)..(j - 1) :
               ~IsHunkHeader(lines_read[n]) /\ ~IsSectionMarker(lines_read[n])

\* C11 as stated: every entry of added_line_numbers of every FileChange
\* parse_diff returns is at least 1.
C11_Positive ==
    \A k \in 1..Len(ParseResult) :
        \A a \in 1..Len(ParseResult[k].added_line_numbers) :
            ParseResult[k].added_line_numbers[a] >= 1

\* C11, amended: every entry of added_line_numbers of every FileChange is at
\* least 1, provided every added line of the diff follows, in its section, a
\* hunk header with a new-side start of at least 1.
C11_PositiveWhenHeaded ==
    (\A j \in 1..Len(lines_read) : IsAdded(lines_read[j]) => HeadedFromOne(j))
        => \A k \in 1..Len(AllFiles) :
               \A a \in 1..Len(AllFiles[k].added_line_numbers) :
                   AllFiles[k].added_line_numbers[a] >= 1

\* Two added lines after a header that starts at 2, a context line between.
C11_Witness ==
    /\ pc = "parse"
    /\ \A j \in 1..Len(lines_read) : IsAdded(lines_read[j]) => HeadedFromOne(j)
    /\ \E k \in 1..Len(ParseResult) : ParseResult[k].added_line_numbers = <<2, 4>>

\* The diff without its lines that begin with @@ and do not match.
WellFormedLines == SelectSeq(lines_read, LAMBDA l : ~IsMalformedHeader(l))

\* C12: a line that begins with @@ and does not match the shape of a hunk
\* header leaves the counter, the accumulator and the content buffer as they
\* were, and parse_diff returns what it returns for the diff without it.
C12_MalformedHeaderIgnored ==
    /\ \A n \in 1..Len(lines_read) :
           IsMalformedHeader(lines_read[n]) =>
               ParseOf(SubSeq(lines_read, 1, n)) = ParseOf(SubSeq(lines_read, 1, n - 1))
    /\ LET st == ParseOf(WellFormedLines)
       IN ParseResult = OnlySql(FlushInto(st.files, st.current_file, st.new_content_lines))

\* A header that does not match, read when the counter stands at 3 and a
\* line is buffered; the added line after it is numbered 3.
C12_Witness ==
    /\ pc = "parse"
    /\ Len(lines_read) = 5
    /\ IsMalformedHeader(lines_read[4])
    /\ new_content_lines = <<"select 1", "from stg_a">>
    /\ current_file # None
    /\ current_file[1].added_line_numbers = <<3>>

\* C13: added_lines and added_line_numbers of every FileChange have the same
\* length.
C13_SameLength ==
    /\ \A k \in 1..Len(AllFiles) :
           Len(AllFiles[k].added_lines) = Len(AllFiles[k].added_line_numbers)
    /\ pc = "parsed" =>
           \A k \in 1..Len(file_diffs) :
               Len(file_diffs[k].added_lines) = Len(file_diffs[k].added_line_numbers)

\* Two files returned, an added line in each, the second after a header.
C13_Witness ==
    /\ pc = "parsed"
    /\ Len(file_diffs) = 2
    /\ file_diffs[1].added_line_numbers = <<0>>
    /\ Len(file_diffs[1].added_lines) = 1
    /\ Len(file_diffs[2].added_lines) = 1

\* C14 as stated: while a file is current, every line that begins with -
\* is appended, without its prefix, to removed_lines and changes nothing
\* else, whatever its text.
C14_RemovedLineFrame ==
    \A n \in 1..Len(lines_read) :
        LET st == ParseOf(SubSeq(lines_read, 1, n - 1))
            line == lines_read[n]
        IN (st.current_file # None /\ StartsWith(line, "-")) =>
               ParseOf(SubSeq(lines_read, 1, n))
                   = [st EXCEPT !.current_file[1].removed_lines = Append(@, Drop(line, 1))]

\* The added lines among the lines of the current file up to line j.
AddedUpTo(j) == Cardinality({n \in Scope : n <= j /\ IsAdded(lines_read[n])})

\* The new-side start of the hunk header at line h.
StartOf(h) == ParseInt(HunkMatch(lines_read[h])[2])

\* C15: while a file is current, a hunk header sets the counter to its
\* new-side start s; an added line is appended to added_lines with the counter
\* as its number; added and context lines increment the counter, removed and
\* marker lines do not: an added line with k context or added lines between
\* its header and it is numbered s + k.
C15_CounterRule ==
    current_file # None =>
        LET cur == current_file[1]
            end == Len(lines_read) + 1
        IN /\ Len(cur.added_lines) = AddedUpTo(Len(lines_read))
           /\ Len(cur.added_line_numbers) = AddedUpTo(Len(lines_read))
           /\ \A j \in Scope :
                  IsAdded(lines_read[j]) =>
                      /\ cur.added_lines[AddedUpTo(j)] = Drop(lines_read[j], 1)
                      /\ \A h \in Scope :
                             GoverningHeader(h, j) =>
                                 cur.added_line_numbers[AddedUpTo(j)]
                                     = StartOf(h) + ContentBetween(h, j)
           /\ \A h \in Scope :
                  GoverningHeader(h, end) =>
                      new_line_no = StartOf(h) + ContentBetween(h, end)

\* A hunk at line 3: a context line, the marker, and an added line numbered 4.
C15_Witness ==
    /\ pc = "parse"
    /\ current_file # None
    /\ current_file[1].added_line_numbers = <<4>>
    /\ \E n \in Scope : IsNoNewlineMarker(lines_read[n])
    /\ new_line_no = 5

\* The file names of the new-file-path lines of a sequence of lines, in order.
PathNames(lines) ==
    LET paths == SelectSeq(lines, IsNewFilePath)
    IN [n \in 1..Len(paths) |-> Drop(paths[n], 6)]

\* C16: at every section marker the accumulator, if there is one, is appended
\* to the result with new_content joined from the buffer, the accumulator is
\* cleared, the buffer emptied and the counter reset to 0; with the flush at
\* the end of the input, the files are in the order of their sections, each
\* with the content buffered in its own section.
C16_FlushInOrder ==
    /\ \A n \in 1..Len(lines_read) :
           IsSectionMarker(lines_read[n]) =>
               LET st == ParseOf(SubSeq(lines_read, 1, n - 1))
               IN ParseOf(SubSeq(lines_read, 1, n))
                      = [files |-> IF st.current_file # None
                                   THEN Append(st.files,
                                               [st.current_file[1] EXCEPT
                                                    !.new_content = Join(st.new_content_lines, "\n")])
                                   ELSE st.files,
                         current_file |-> None,
                         new_content_lines |-> <<>>,
                         new_line_no |-> 0]
    /\ Len(AllFiles) = Len(FileSections)
    /\ \A k \in 1..Len(AllFiles) :
           LET names == PathNames(FileSections[k])
           IN /\ AllFiles[k].filename = names[Len(names)]
              /\ AllFiles[k].new_content = Join(BufferedLines(FileSections[k]), "\n")

\* Two sections, a.sql with an added line and b.sql, after a marker, with a
\* context line.
C16_Witness ==
    /\ pc = "parse"
    /\ Len(AllFiles) = 2
    /\ IsSectionMarker(lines_read[3])
    /\ AllFiles[1].filename = "a.sql" /\ AllFiles[1].new_content = "from stg_a"
    /\ AllFiles[2].filename = "b.sql" /\ AllFiles[2].new_content = "select 1"

\* C19 as stated: every new-file-path line gives exactly one FileChange of
\* its path in the result before the filter on the suffix, in the order of
\* the lines, also when no section marker stands between two of them.
C19_NoAccumulatorLost ==
    /\ Len(AllFiles) = Len(PathNames(lines_read))
    /\ \A k \in 1..Len(AllFiles) : AllFiles[k].filename = PathNames(lines_read)[k]

\* The new-file-path line of a deletion.
IsNoFilePath(l) == l = "+++ /dev/null"

\* The section line n of the diff is in: 1 for the lines before the first
\* section marker, one more after each marker.
SectionOf(n) == 1 + Cardinality({m \in 1..n : IsSectionMarker(lines_read[m])})

\* A section that deletes a file: its new-file-path line denotes no file, and
\* none names one.
IsDeletion(section) ==
    /\ \E n \in 1..Len(section) : IsNoFilePath(section[n])
    /\ ~HasNewFilePath(section)

\* The first n lines of the diff without the sections that delete a file.
RECURSIVE WithoutDeletions(_)
WithoutDeletions(n) ==
    IF n = 0 THEN <<>>
    ELSE IF IsDeletion(SplitSections(lines_read)[SectionOf(n)])
         THEN WithoutDeletions(n - 1)
         ELSE Append(WithoutDeletions(n - 1), lines_read[n])

\* C17: in a section that deletes a file the accumulator stays unset and the
\* lines of the section are ignored: parse_diff gives the files it gives for
\* the diff without those sections.
C17_DeletionIgnored ==
    /\ (Len(lines_read) > 0
            /\ IsDeletion(SplitSections(lines_read)[SectionOf(Len(lines_read))]))
           => current_file = None
    /\ LET st == ParseOf(WithoutDeletions(Len(lines_read)))
       IN AllFiles = FlushInto(st.files, st.current_file, st.new_content_lines)

\* A file with an added line, then a section that deletes a file and holds
\* a removed line.
C17_Witness ==
    /\ pc = "parse"
    /\ Len(lines_read) = 5
    /\ IsSectionMarker(lines_read[3])
    /\ IsNoFilePath(lines_read[4])
    /\ IsRemoved(lines_read[5])
    /\ Len(AllFiles) = 1
    /\ AllFiles[1].added_lines = <<"from stg_a">>
    /\ AllFiles[1].removed_lines = <<>>

Placeholder == "__JINJA__"

\* Erasing the text a second time gives what erasing it once gives.
Idempotent(repl, text) == JinjaSub(repl, JinjaSub(repl, text)) = JinjaSub(repl, text)

\* The added lines of the files parse_diff returned.
AddedTexts ==
    UNION {{file_diffs[k].added_lines[a] : a \in 1..Len(file_diffs[k].added_lines)} :
              k \in 1..Len(file_diffs)}

\* C18 as stated: both erasures the checks apply, by the placeholder and by
\* the empty string, are idempotent on every line.
C18_BothIdempotent ==
    \A text \in AddedTexts : Idempotent(Placeholder, text) /\ Idempotent("", text)

\* C18, amended: the erasure by the placeholder, of check_hardcoded_schema,
\* is idempotent on every line.
C18_PlaceholderIdempotent ==
    \A text \in AddedTexts : Idempotent(Placeholder, text)

\* The checks have run on a line with an expression that the erasure by the
\* empty string erases in two steps and the erasure by the placeholder in one.
C18_Witness ==
    /\ pc = "checked"
    /\ \E text \in AddedTexts :
           /\ JinjaSub(Placeholder, text) # text
           /\ Idempotent(Placeholder, text)
           /\ ~Idempotent("", text)

\* ------------------------------------------------------------- the diffs read

\* The lines of the diffs of Spec: two hunk headers, and the same text as an
\* added, a removed and a context line.
DiffLines ==
    {"diff --git a/m.sql b/m.sql",
     "+++ b/m.sql",
     "@@ -1 +1 @@",
     "@@ -1,2 +3,2 @@",
     "+from stg_a",
     "-from stg_a",
     " select 1"}

\* The lines of the diffs of SpecReview: files that are reviewed, skipped and
\* deleted, and added lines that the rules match.
ReviewLines ==
    {"diff --git a/m.sql b/m.sql",
     "+++ b/m.sql",
     "+++ b/r.md",
     "+++ /dev/null",
     "+select * from stg_a",
     "+from stg_a join stg_b",
     "+from a.b"}

\* The lines of the diffs that change nothing, and an added line beside them.
NoopLines ==
    {"+++ b/m.sql",
     "@@ -1,2 +1,2 @@",
     " select 1",
     " ",
     "",
     "\\ No newline at end of file",
     "+from stg_a"}

\* The lines of the diffs of SpecHeaders: hunk headers that start at 0 and at
\* 2, and one that does not match.
HeaderLines ==
    {"diff --git a/m.sql b/m.sql",
     "+++ b/m.sql",
     "@@ -1 +0,0 @@",
     "@@ -1,2 +2,2 @@",
     "@@ -1 +x @@",
     "+from stg_a",
     " select 1"}

\* The lines of the diffs of SpecCounter: a hunk with lines of every kind,
\* among them a removed line whose text begins with "-- ".
CounterLines ==
    {"+++ b/m.sql",
     "@@ -1,2 +3,2 @@",
     "+from stg_a",
     "-from stg_b",
     "--- note",
     " select 1",
     "\\ No newline at end of file"}

\* The lines of the diffs of SpecSections: two files, with and without a
\* section marker between them.
SectionLines ==
    {"diff --git a/x.sql b/x.sql",
     "+++ b/a.sql",
     "+++ b/b.sql",
     "@@ -1,2 +3,2 @@",
     "+from stg_a",
     " select 1"}

\* The lines of the diffs of SpecDeletion: sections that name a file and
\* sections that delete one.
DeletionLines ==
    {"diff --git a/m.sql b/m.sql",
     "+++ b/m.sql",
     "+++ /dev/null",
     "@@ -1,2 +3,2 @@",
     "+from stg_a",
     "-from stg_b",
     " select 1"}

\* The pieces of the added lines of SpecErase: braces and a name.
ErasePieces == {"{{a", "}}", "}", "a"}

\* The texts of at most n pieces.
RECURSIVE TextsOf(_)
TextsOf(n) ==
    IF n = 0 THEN {""}
    ELSE LET shorter == TextsOf(n - 1)
         IN shorter \cup {t \o piece : t \in shorter, piece \in ErasePieces}

\* The diffs of SpecErase: one file, one hunk, one added line that names a
\* model and goes on with braces.
EraseDiffs ==
    {<<"+++ b/m.sql", "@@ -1 +1 @@", "+from stg_" \o t>> : t \in TextsOf(MaxPieces)}

Init ==
    /\ pc = "parse"
    /\ ParseStart
    /\ file_diffs = <<>>
    /\ all_findings = <<>>
    /\ exit_status = -1

\* The run over diffs made of the lines of the set given.
NextOver(lines) ==
    \/ \E line \in lines : ParseLine(line)
    \/ ParseReturn
    \/ EmptyDiff
    \/ NoSqlFiles
    \/ RunDeterministic
    \/ RunSemantic
    \/ FormatReport
    \/ ReportRaises
    \/ Exit

Next == NextOver(DiffLines)

NextReview == NextOver(ReviewLines)

NextNoop == NextOver(NoopLines)

NextHeaders == NextOver(HeaderLines)

NextCounter == NextOver(CounterLines)

NextSections == NextOver(SectionLines)

NextDeletion == NextOver(DeletionLines)

\* main has read one of the diffs of SpecErase and parse_diff has returned.
InitErase ==
    /\ pc = "parsed"
    /\ ParseStart
    /\ \E diff \in EraseDiffs :
           LET st == ParseOf(diff)
           IN file_diffs = OnlySql(FlushInto(st.files, st.current_file, st.new_content_lines))
    /\ all_findings = <<>>
    /\ exit_status = -1

NextErase ==
    \/ RunDeterministic
    \/ RunSemantic
    \/ FormatReport
    \/ ReportRaises
    \/ Exit

Spec == Init /\ [][Next]_vars

SpecReview == Init /\ [][NextReview]_vars

SpecNoop == Init /\ [][NextNoop]_vars

SpecHeaders == Init /\ [][NextHeaders]_vars

SpecCounter == Init /\ [][NextCounter]_vars

SpecSections == Init /\ [][NextSections]_vars

SpecDeletion == Init /\ [][NextDeletion]_vars

SpecErase == InitErase /\ [][NextErase]_vars

====
